---- MODULE Spec2Model ----
(***************************************************************************)
(* segmented-rs: the segmented list (src/src/list.rs) on top of the        *)
(* segmented bump allocator (src/src/alloc.rs), which maps its blocks with *)
(* mmap (src/src/mmap.rs).                                                 *)
(*                                                                         *)
(* Memory is modelled by numeric addresses: mmap hands out page aligned    *)
(* regions, the arena bumps a cursor inside them, the list stores its      *)
(* elements at ptr + i * size_of::<T>().  `mem` holds what has been        *)
(* written at each element address, so that two blocks that overlapped, or *)
(* a write through a wrong pointer, would be seen as a clobbered slot.     *)
(*                                                                         *)
(* Elements are identified by the order in which they were created         *)
(* (1, 2, 3, ...), like the DropCounter instances of the tests, so that    *)
(* order, duplication, drops and moves of single elements can be told      *)
(* apart.                                                                  *)
(***************************************************************************)
EXTENDS Integers, Sequences, FiniteSets, TLC

\* ------------------------------------------------------------ constants

\* src/src/list.rs:8-10
BLOCK_COUNT == 24
START_SIZE == 8
LOG2_OF_START_SIZE == 3

\* src/src/alloc.rs:8-10
MIN_SIZE == 4096
MAX_BLOCKS == 55
GROWTH == 2

\* Granularity of the mappings mmap returns on the x86-64 targets of
\* src/src/mmap.rs: a mapping starts on a page boundary, and a page is
\* 4096 bytes there (the size of the arena's first block).
PAGE_SIZE == MIN_SIZE

\* ---------------------------------------------------------------- bounds

\* Elements created (pushed or assigned) in one run of the list program.
MaxPushes == 25
\* Calls of clear() per list in one run.
MaxClears == 2
\* Elements created in one run of the programs that also call the
\* accessors, the cached-index fast path or clone.
MaxSmallPushes == 10
\* Elements created after construction in one run of the clone program.
MaxCloneCreations == 1
\* Calls of clear() per list in one run of the clone program.
MaxCloneClears == 1
\* The ceiling program starts from lists that lack 0..MaxCeilRoom elements
\* to their largest length.
MaxCeilRoom == 12
\* Arena requests in one run of the allocator program.
MaxRequests == 3
\* Calls of dealloc in one run of the release program.
MaxReleases == 1
\* Indices 0..MaxIdx are all fed to the index mapping, next to the
\* neighbourhood of every block boundary.
MaxIdx == 80

\* The element types T the list is instantiated with: size_of::<T>() and
\* align_of::<T>().  8-byte elements keep all list blocks inside the first
\* arena block; 256-byte elements make every new list block grow the arena.
ElemTypes == { [size |-> 8, align |-> 8], [size |-> 256, align |-> 8] }

\* Gap, in pages, the operating system may leave between the end of the
\* highest mapping and a new one: where mmap places a mapping is its choice.
MmapGaps == {0, 1}

\* ------------------------------------------------------------- helpers

\* Option<T>
None == <<>>
Some(x) == <<x>>
IsSome(o) == o # <<>>
Unwrap(o) == o[1]

Min(a, b) == IF a < b THEN a ELSE b

\* The bits an uninitialised read yields: no element of the program.
Undef == 0 - 1

\* usize::next_multiple_of
next_multiple_of(x, a) == ((x + a - 1) \div a) * a

\* Number of significant bits of x.
RECURSIVE BitLen(_)
BitLen(x) == IF x = 0 THEN 0 ELSE 1 + BitLen(x \div 2)

\* usize::leading_zeros on the 64-bit targets of src/src/mmap.rs
leading_zeros(x) == 64 - BitLen(x)

VARIABLES
    elem,      \* the element type T: [size, align]
    os,        \* the operating system's mappings: [next, mapped, released]
    mem,       \* element address -> [val, st], for every address written
    lists,     \* list name -> SegmentedList
    live,      \* names of the lists that exist
    pc,        \* "running", or "aborted" after a panic or an abort
    nextId,    \* the next element to be created
    model,     \* list name -> the sequence a Vec would hold (ghost)
    maxlen,    \* list name -> the largest len the list has had (ghost)
    nclears,   \* list name -> calls of clear() (ghost)
    collected, \* elements the list was constructed from by collect()
    fate,      \* element -> [drops, moves]: times dropped, times moved out
    ret,       \* the last operation and what it returned
    vec,       \* the Vec returned by to_vec
    cached,    \* the SegmentedIdx the caller keeps: None or Some([idx, si])
    ctx,       \* the arena of the allocator program
    allocs,    \* the allocations the allocator program was given
    idx_in,    \* input of the index mapping program
    idx_out,   \* its output
    threads,   \* thread -> its position in request and its locals
    freed      \* the allocations that were passed to dealloc (ghost)

vars == << elem, os, mem, lists, live, pc, nextId, model, maxlen, nclears,
           collected, fate, ret, vec, cached, ctx, allocs, idx_in, idx_out,
           threads, freed >>

size_of_T == elem.size
align_of_T == elem.align

\* ------------------------------------------------------- src/src/mmap.rs

\* mmap(None, length, READ|WRITE, PRIVATE|ANONYMOUS, -1, 0): a fresh page
\* aligned region that overlaps no other mapping; gap is the operating
\* system's choice of where.
mmap(o, length, gap) ==
    LET base == o.next + gap * PAGE_SIZE
    IN  [ ptr |-> base,
          os  |-> [ o EXCEPT !.next = base + next_multiple_of(length, PAGE_SIZE),
                             !.mapped = o.mapped \cup { <<base, length>> } ] ]

\* munmap(ptr, size): the region goes back to the operating system, which
\* keeps the calls it was given, in order.
munmap(o, ptr, size) ==
    [ o EXCEPT !.mapped = @ \ { <<ptr, size>> },
               !.released = Append(@, <<ptr, size>>) ]

\* The operating system before the program has mapped anything.
NoMappings == [next |-> PAGE_SIZE, mapped |-> {}, released |-> << >>]

\* ------------------------------------------------------ src/src/alloc.rs

SegmentedAllocCtx_new ==
    [ cur_block   |-> 0,
      size        |-> MIN_SIZE,
      pos         |-> 0,
      blocks      |-> [i \in 0..(MAX_BLOCKS - 1) |-> None],
      block_sizes |-> [i \in 0..(MAX_BLOCKS - 1) |-> 0] ]

\* Layout::pad_to_align().size()
pad_to_align(size, align) == next_multiple_of(size, align)

\* Mutant of request_loop: a request that does not fit doubles the tracked
\* capacity and rewinds the cursor, but maps no new block.
RECURSIVE request_loop_rewind(_, _, _, _, _)
request_loop_rewind(c, o, size, align, gap) ==
    LET offset == next_multiple_of(c.pos, align)
        end == offset + pad_to_align(size, align)
    IN  IF end > c.size
        THEN request_loop_rewind([c EXCEPT !.size = @ * GROWTH, !.pos = 0],
                                 o, size, align, gap)
        ELSE [ctx |-> [c EXCEPT !.pos = end], os |-> o,
              ptr |-> Some(Unwrap(c.blocks[c.cur_block]) + offset), abort |-> ""]

\* Mutant of request_loop: a block that is exceeded is followed by one that
\* is MIN_SIZE larger, not GROWTH times as large.
RECURSIVE request_loop_linear(_, _, _, _, _)
request_loop_linear(c, o, size, align, gap) ==
    LET offset == next_multiple_of(c.pos, align)
        end == offset + pad_to_align(size, align)
    IN  IF end > c.size
        THEN LET new_size == c.size + MIN_SIZE
                 m == mmap(o, new_size, gap)
                 cb == c.cur_block + 1
             IN  request_loop_linear(
                     [ cur_block   |-> cb,
                       size        |-> new_size,
                       pos         |-> 0,
                       blocks      |-> [c.blocks EXCEPT ![cb] = Some(m.ptr)],
                       block_sizes |-> [c.block_sizes EXCEPT ![cb] = new_size] ],
                     m.os, size, align, gap)
        ELSE [ctx |-> [c EXCEPT !.pos = end], os |-> o,
              ptr |-> Some(Unwrap(c.blocks[c.cur_block]) + offset), abort |-> ""]

\* Mutant of request_loop: the cursor is not rounded up to the alignment.
RECURSIVE request_loop_unaligned(_, _, _, _, _)
request_loop_unaligned(c, o, size, align, gap) ==
    LET offset == c.pos
        end == offset + pad_to_align(size, align)
    IN  IF end > c.size
        THEN LET new_size == c.size * GROWTH
                 m == mmap(o, new_size, gap)
                 cb == c.cur_block + 1
             IN  request_loop_unaligned(
                     [ cur_block   |-> cb,
                       size        |-> new_size,
                       pos         |-> 0,
                       blocks      |-> [c.blocks EXCEPT ![cb] = Some(m.ptr)],
                       block_sizes |-> [c.block_sizes EXCEPT ![cb] = new_size] ],
                     m.os, size, align, gap)
        ELSE [ctx |-> [c EXCEPT !.pos = end], os |-> o,
              ptr |-> Some(Unwrap(c.blocks[c.cur_block]) + offset), abort |-> ""]

\* The loop of SegmentedAlloc::request.  The values of the model stay far
\* below 2^64, where checked_add and next_multiple_of cannot overflow.
RECURSIVE request_loop(_, _, _, _, _)
request_loop(c, o, size, align, gap) ==
    LET offset == next_multiple_of(c.pos, align)
        padded_size == pad_to_align(size, align)
        end == offset + padded_size
    IN  IF end > c.size
        THEN IF ~(c.cur_block + 1 < MAX_BLOCKS)
             THEN [ctx |-> c, os |-> o, ptr |-> None, abort |-> "Exceeded MAX_BLOCKS"]
             ELSE LET new_size == c.size * GROWTH
                      m == mmap(o, new_size, gap)
                      cb == c.cur_block + 1
                  IN  request_loop(
                          [ cur_block   |-> cb,
                            size        |-> new_size,
                            pos         |-> 0,
                            blocks      |-> [c.blocks EXCEPT ![cb] = Some(m.ptr)],
                            block_sizes |-> [c.block_sizes EXCEPT ![cb] = new_size] ],
                          m.os, size, align, gap)
        ELSE LET block == c.blocks[c.cur_block]
             IN  IF block = None
                 THEN [ctx |-> c, os |-> o, ptr |-> None,
                       abort |-> "Current block is None while allocating"]
                 ELSE [ctx |-> [c EXCEPT !.pos = end], os |-> o,
                       ptr |-> Some(Unwrap(block) + offset), abort |-> ""]

\* SegmentedAlloc::request: maps the first block on first use, then loops.
request(c, o, size, align, gap) ==
    IF c.blocks[0] = None
    THEN LET m == mmap(o, MIN_SIZE, gap)
         IN  request_loop([c EXCEPT !.block_sizes[0] = MIN_SIZE,
                                    !.blocks[0] = Some(m.ptr)],
                          m.os, size, align, gap)
    ELSE request_loop(c, o, size, align, gap)

\* ------------------------------------------------------- src/src/list.rs

SegmentedIdx(block, block_index) == <<block, block_index>>

\* Mutant of idx_to_block_idx: the fast path takes idx = START_SIZE too.
idx_to_block_idx_le(idx) ==
    IF idx <= START_SIZE
    THEN SegmentedIdx(0, idx)
    ELSE LET adjusted == idx + START_SIZE
             msb_pos == 63 - leading_zeros(adjusted)
             block == msb_pos - LOG2_OF_START_SIZE
             block_start == START_SIZE * ((2 ^ block) - 1)
         IN  SegmentedIdx(block, idx - block_start)

idx_to_block_idx(idx) ==
    IF idx < START_SIZE
    THEN SegmentedIdx(0, idx)
    ELSE LET adjusted == idx + START_SIZE
             msb_pos == 63 - leading_zeros(adjusted)
             block == msb_pos - LOG2_OF_START_SIZE
             block_start == START_SIZE * ((2 ^ block) - 1)
         IN  SegmentedIdx(block, idx - block_start)

\* ptr.add(i) on a *mut MaybeUninit<T>
ptr_add(ptr, i) == ptr + i * size_of_T

\* Two element slots share at least one byte.
Overlaps(a, b) == a < b + size_of_T /\ b < a + size_of_T

\* MaybeUninit::write(v) at addr: the slot holds v; whatever lay across the
\* written bytes at another address is destroyed.
write(m, addr, v) ==
    [a \in DOMAIN m \cup {addr} |->
        IF a = addr THEN [val |-> v, st |-> "init"]
        ELSE IF Overlaps(a, addr) THEN [val |-> Undef, st |-> m[a].st]
        ELSE m[a]]

\* assume_init_ref / assume_init_mut / the bits assume_init_read copies:
\* the value at addr, or undefined bits where nothing was ever written.
assume_init_ref(m, addr) == IF addr \in DOMAIN m THEN m[addr].val ELSE Undef

\* Mutant of SegmentedList_new: the tables stay empty, nothing is requested.
SegmentedList_new_lazy(o, gap) ==
    [ list |-> [ blocks |-> [i \in 0..(BLOCK_COUNT - 1) |-> None],
                 block_lengths |-> [i \in 0..(BLOCK_COUNT - 1) |-> 0],
                 allocator |-> SegmentedAllocCtx_new,
                 len |-> 0 ],
      os |-> o,
      abort |-> "" ]

\* SegmentedList::new: the empty tables, then the first block, eagerly.
SegmentedList_new(o, gap) ==
    LET r == request(SegmentedAllocCtx_new, o, START_SIZE * size_of_T,
                     align_of_T, gap)
    IN  [ list |-> [ blocks |-> [i \in 0..(BLOCK_COUNT - 1) |->
                                    IF i = 0 THEN r.ptr ELSE None],
                     block_lengths |-> [i \in 0..(BLOCK_COUNT - 1) |->
                                    IF i = 0 THEN START_SIZE ELSE 0],
                     allocator |-> r.ctx,
                     len |-> 0 ],
          os |-> r.os,
          abort |-> r.abort ]

\* Mutant of alloc_block: blocks grow by START_SIZE instead of doubling.
alloc_block_linear(list, o, block, gap) ==
    LET elems == START_SIZE * (block + 1)
        r == request(list.allocator, o, elems * size_of_T, align_of_T, gap)
    IN  [list |-> [list EXCEPT !.allocator = r.ctx,
                               !.blocks[block] = r.ptr,
                               !.block_lengths[block] = elems],
         os |-> r.os, abort |-> r.abort]

alloc_block(list, o, block, gap) ==
    LET elems == START_SIZE * (2 ^ block)
        bytes == elems * size_of_T
        r == request(list.allocator, o, bytes, align_of_T, gap)
    IN  IF r.abort # ""
        THEN [list |-> [list EXCEPT !.allocator = r.ctx], os |-> r.os,
              abort |-> r.abort]
        ELSE [list |-> [list EXCEPT !.allocator = r.ctx,
                                    !.blocks[block] = r.ptr,
                                    !.block_lengths[block] = elems],
              os |-> r.os, abort |-> ""]

\* Mutant of push: a block index beyond the table wraps around to its start.
push_wrapping(list, o, m, v, gap) ==
    LET idx == list.len
        si == idx_to_block_idx(idx)
        block == si[1] % BLOCK_COUNT
        block_index == si[2]
        a == IF list.blocks[block] = None
             THEN alloc_block(list, o, block, gap)
             ELSE [list |-> list, os |-> o, abort |-> ""]
    IN  [list |-> [a.list EXCEPT !.len = @ + 1],
         os |-> a.os,
         mem |-> write(m, ptr_add(Unwrap(a.list.blocks[block]), block_index), v),
         abort |-> ""]

push(list, o, m, v, gap) ==
    LET idx == list.len
        si == idx_to_block_idx(idx)
        block == si[1]
        block_index == si[2]
    IN  IF block >= BLOCK_COUNT
        THEN [list |-> list, os |-> o, mem |-> m,
              abort |-> "index out of bounds"]
        ELSE LET a == IF list.blocks[block] = None
                      THEN alloc_block(list, o, block, gap)
                      ELSE [list |-> list, os |-> o, abort |-> ""]
             IN  IF a.abort # ""
                 THEN [list |-> a.list, os |-> a.os, mem |-> m, abort |-> a.abort]
                 ELSE [list |-> [a.list EXCEPT !.len = @ + 1],
                       os |-> a.os,
                       mem |-> write(m, ptr_add(Unwrap(a.list.blocks[block]),
                                                block_index), v),
                       abort |-> ""]

\* What an accessor returns: the element (res), the slot it refers to (at)
\* and the slots it read.
Absent == [res |-> None, at |-> None, reads |-> {}, panic |-> FALSE]
SlotRef(m, addr) == [res |-> Some(assume_init_ref(m, addr)), at |-> Some(addr),
                     reads |-> {addr}, panic |-> FALSE]
\* panic!("index {} out of bounds for List of length {}", idx, self.len)
OutOfBounds == [res |-> None, at |-> None, reads |-> {}, panic |-> TRUE]

\* Mutant of get: the bounds check lets idx = len through.
get_len_inclusive(list, m, idx) ==
    IF idx > list.len
    THEN Absent
    ELSE LET si == idx_to_block_idx(idx)
         IN  IF list.blocks[si[1]] = None
             THEN Absent
             ELSE SlotRef(m, ptr_add(Unwrap(list.blocks[si[1]]), si[2]))

get(list, m, idx) ==
    IF idx >= list.len
    THEN Absent
    ELSE LET si == idx_to_block_idx(idx)
         IN  IF list.blocks[si[1]] = None
             THEN Absent
             ELSE SlotRef(m, ptr_add(Unwrap(list.blocks[si[1]]), si[2]))

get_mut(list, m, idx) ==
    IF idx >= list.len
    THEN Absent
    ELSE LET si == idx_to_block_idx(idx)
         IN  IF list.blocks[si[1]] = None
             THEN Absent
             ELSE SlotRef(m, ptr_add(Unwrap(list.blocks[si[1]]), si[2]))

compute_segmented_idx(list, idx) ==
    IF idx > list.len THEN None ELSE Some(idx_to_block_idx(idx))

get_with_segmented_idx(list, m, si) ==
    IF list.blocks[si[1]] = None
    THEN Absent
    ELSE SlotRef(m, ptr_add(Unwrap(list.blocks[si[1]]), si[2]))

get_mut_with_segmented_idx(list, m, si) ==
    IF list.blocks[si[1]] = None
    THEN Absent
    ELSE SlotRef(m, ptr_add(Unwrap(list.blocks[si[1]]), si[2]))

\* Mutant of index: no bounds check before the slot is taken.
index_unchecked(list, m, idx) ==
    LET si == idx_to_block_idx(idx)
    IN  IF list.blocks[si[1]] = None
        THEN OutOfBounds
        ELSE SlotRef(m, ptr_add(Unwrap(list.blocks[si[1]]), si[2]))

\* impl Index<usize>: list[idx]
index(list, m, idx) ==
    IF idx >= list.len
    THEN OutOfBounds
    ELSE LET si == idx_to_block_idx(idx)
         IN  IF list.blocks[si[1]] = None
             THEN OutOfBounds
             ELSE SlotRef(m, ptr_add(Unwrap(list.blocks[si[1]]), si[2]))

\* impl IndexMut<usize>: &mut list[idx]
index_mut(list, m, idx) ==
    IF idx >= list.len
    THEN OutOfBounds
    ELSE LET si == idx_to_block_idx(idx)
         IN  IF list.blocks[si[1]] = None
             THEN OutOfBounds
             ELSE SlotRef(m, ptr_add(Unwrap(list.blocks[si[1]]), si[2]))

len(list) == list.len

\* sum of block_lengths
RECURSIVE SumTo(_, _)
SumTo(f, n) == IF n < 0 THEN 0 ELSE f[n] + SumTo(f, n - 1)
capacity(list) == SumTo(list.block_lengths, BLOCK_COUNT - 1)

\* Mutant of is_empty: a list is taken for empty when it has no capacity.
is_empty_by_capacity(list) == capacity(list) = 0

is_empty(list) == list.len = 0

\* The elements at the first take slots of the block at ptr.
SlotAddrs(ptr, take) == { ptr_add(ptr, i) : i \in 0..(take - 1) }

\* assume_init_drop on each of the first take slots of the block at ptr.
drop_slots(m, f, ptr, take) ==
    LET addrs == SlotAddrs(ptr, take)
    IN  [ mem  |-> [a \in DOMAIN m |->
                      IF a \in addrs THEN [m[a] EXCEPT !.st = "dropped"] ELSE m[a]],
          fate |-> [id \in DOMAIN f |->
                      [f[id] EXCEPT !.drops = @ + Cardinality(
                          {a \in addrs \cap DOMAIN m : m[a].val = id})]] ]

\* Mutant of clear_loop: every slot of a block is dropped, initialised or not.
RECURSIVE clear_loop_whole_block(_, _, _, _, _)
clear_loop_whole_block(list, m, f, block_idx, remaining) ==
    IF block_idx >= BLOCK_COUNT \/ remaining = 0
    THEN [mem |-> m, fate |-> f]
    ELSE IF list.blocks[block_idx] = None
    THEN [mem |-> m, fate |-> f]
    ELSE LET ptr == Unwrap(list.blocks[block_idx])
             take == list.block_lengths[block_idx]
             d == drop_slots(m, f, ptr, take)
         IN  clear_loop_whole_block(list, d.mem, d.fate, block_idx + 1,
                                    remaining - Min(remaining, take))

\* The loop of SegmentedList::clear over the blocks.
RECURSIVE clear_loop(_, _, _, _, _)
clear_loop(list, m, f, block_idx, remaining) ==
    IF block_idx >= BLOCK_COUNT \/ remaining = 0
    THEN [mem |-> m, fate |-> f]
    ELSE IF list.blocks[block_idx] = None
    THEN [mem |-> m, fate |-> f]
    ELSE LET ptr == Unwrap(list.blocks[block_idx])
             take == Min(remaining, list.block_lengths[block_idx])
             d == drop_slots(m, f, ptr, take)
         IN  clear_loop(list, d.mem, d.fate, block_idx + 1, remaining - take)

clear(list, m, f) ==
    LET r == clear_loop(list, m, f, 0, list.len)
    IN  [list |-> [list EXCEPT !.len = 0], mem |-> r.mem, fate |-> r.fate]

\* The inner loop of clone: slots i..elems-1 of the block at src are read
\* with assume_init and written to the block at dst.
RECURSIVE copy_slots(_, _, _, _, _)
copy_slots(m, src, dst, i, elems) ==
    IF i >= elems
    THEN m
    ELSE copy_slots(write(m, ptr_add(dst, i), assume_init_ref(m, ptr_add(src, i))),
                    src, dst, i + 1, elems)

\* The loop of clone over the blocks of self.
RECURSIVE clone_loop(_, _, _, _, _, _)
clone_loop(self, new_list, o, m, block_idx, gap) ==
    IF block_idx >= BLOCK_COUNT
    THEN [list |-> new_list, os |-> o, mem |-> m, abort |-> ""]
    ELSE IF self.blocks[block_idx] = None \/ self.block_lengths[block_idx] = 0
    THEN clone_loop(self, new_list, o, m, block_idx + 1, gap)
    ELSE LET elems == self.block_lengths[block_idx]
             a == alloc_block(new_list, o, block_idx, gap)
         IN  IF a.abort # ""
             THEN [list |-> a.list, os |-> a.os, mem |-> m, abort |-> a.abort]
             ELSE clone_loop(self,
                             [a.list EXCEPT !.block_lengths[block_idx] = elems],
                             a.os,
                             copy_slots(m, Unwrap(self.blocks[block_idx]),
                                        Unwrap(a.list.blocks[block_idx]), 0, elems),
                             block_idx + 1, gap)

\* Mutant of clone: a structural copy, the block pointers of self are taken
\* over instead of copying the blocks.
clone_shallow(self, o, m, gap) ==
    LET n == SegmentedList_new(o, gap)
    IN  [list |-> [n.list EXCEPT !.len = self.len, !.blocks = self.blocks,
                                 !.block_lengths = self.block_lengths],
         os |-> n.os, mem |-> m, abort |-> n.abort]

\* impl Clone for SegmentedList
clone(self, o, m, gap) ==
    LET n == SegmentedList_new(o, gap)
    IN  IF n.abort # ""
        THEN [list |-> n.list, os |-> n.os, mem |-> m, abort |-> n.abort]
        ELSE clone_loop(self, [n.list EXCEPT !.len = self.len], n.os, m, 0, gap)

\* The slots clone reads with assume_init: all elems slots of every block
\* self has.
clone_reads(self) ==
    UNION { SlotAddrs(Unwrap(self.blocks[b]), self.block_lengths[b]) :
              b \in { i \in 0..(BLOCK_COUNT - 1) : self.blocks[i] # None } }

\* The address of the slot of logical index idx, for idx < capacity().
SlotAddr(list, idx) ==
    LET si == idx_to_block_idx(idx)
    IN  ptr_add(Unwrap(list.blocks[si[1]]), si[2])

\* ---------------------------------------------------------------- state

Lists == {"a", "b"}

NoRet == [op |-> "none", l |-> "a", idx |-> 0, res |-> None, at |-> None,
          reads |-> {}, panic |-> FALSE]

\* Operation op of list l with argument idx returned r.
Ret(op, l, idx, r) == [op |-> op, l |-> l, idx |-> idx, res |-> r.res, at |-> r.at,
                       reads |-> r.reads, panic |-> r.panic]

Done(op, l, idx) == [NoRet EXCEPT !.op = op, !.l = l, !.idx = idx]

\* No element exists yet, nothing was called.
NothingYet ==
    /\ mem = << >>
    /\ pc = "running"
    /\ nextId = 1
    /\ collected = 0
    /\ model = [l \in Lists |-> << >>]
    /\ maxlen = [l \in Lists |-> 0]
    /\ nclears = [l \in Lists |-> 0]
    /\ fate = << >>
    /\ ret = NoRet
    /\ vec = << >>
    /\ cached = None

\* The program has no list.
NoList ==
    /\ elem = [size |-> 8, align |-> 8]
    /\ lists = << >>
    /\ live = {}

\* The allocator program's arena: static A: SegmentedAlloc = SegmentedAlloc::new()
NewArena ==
    /\ ctx = SegmentedAllocCtx_new
    /\ allocs = << >>

NoIdx ==
    /\ idx_in = 0
    /\ idx_out = None

\* No thread is inside request, nothing was passed to dealloc.
NoThreads ==
    /\ threads = << >>
    /\ freed = {}

\* The state after `let mut list = SegmentedList::new()`.
InitList ==
    /\ elem \in ElemTypes
    /\ \E gap \in MmapGaps :
          LET n == SegmentedList_new(NoMappings, gap)
          IN  /\ lists = [l \in {"a"} |-> n.list]
              /\ os = n.os
    /\ live = {"a"}
    /\ NothingYet
    /\ NewArena
    /\ NoIdx
    /\ NoThreads

Init == InitList

\* list.push(v) with a new element v, while fewer than bound were created.
Push(l, bound) ==
    /\ pc = "running"
    /\ l \in live
    /\ nextId <= bound
    /\ \E gap \in MmapGaps :
          LET r == push(lists[l], os, mem, nextId, gap)
          IN  /\ lists' = [lists EXCEPT ![l] = r.list]
              /\ os' = r.os
              /\ mem' = r.mem
              /\ pc' = IF r.abort = "" THEN "running" ELSE "aborted"
              /\ model' = IF r.abort = ""
                          THEN [model EXCEPT ![l] = Append(@, nextId)]
                          ELSE model
              /\ maxlen' = [maxlen EXCEPT ![l] = IF r.list.len > @ THEN r.list.len ELSE @]
              /\ ret' = [Done("push", l, lists[l].len) EXCEPT !.panic = r.abort # ""]
    /\ fate' = [id \in DOMAIN fate \cup {nextId} |->
                  IF id = nextId THEN [drops |-> 0, moves |-> 0] ELSE fate[id]]
    /\ nextId' = nextId + 1
    /\ UNCHANGED << elem, live, nclears, collected, vec, cached, ctx, allocs,
                    idx_in, idx_out, threads, freed >>

\* list.clear(), while the list was cleared fewer than bound times.
Clear(l, bound) ==
    /\ pc = "running"
    /\ l \in live
    /\ nclears[l] < bound
    /\ LET r == clear(lists[l], mem, fate)
       IN  /\ lists' = [lists EXCEPT ![l] = r.list]
           /\ mem' = r.mem
           /\ fate' = r.fate
    /\ model' = [model EXCEPT ![l] = << >>]
    /\ nclears' = [nclears EXCEPT ![l] = @ + 1]
    /\ ret' = Done("clear", l, 0)
    /\ cached' = None
    /\ UNCHANGED << elem, os, live, pc, nextId, maxlen, collected, vec, ctx,
                    allocs, idx_in, idx_out, threads, freed >>

\* The elements at the first take slots of the block at ptr, read out with
\* assume_init_read, in slot order.
read_slots(m, f, ptr, take) ==
    LET addrs == SlotAddrs(ptr, take)
    IN  [ values |-> [i \in 1..take |-> assume_init_ref(m, ptr_add(ptr, i - 1))],
          mem  |-> [a \in DOMAIN m |->
                      IF a \in addrs THEN [m[a] EXCEPT !.st = "moved"] ELSE m[a]],
          fate |-> [id \in DOMAIN f |->
                      [f[id] EXCEPT !.moves = @ + Cardinality(
                          {a \in addrs \cap DOMAIN m : m[a].val = id})]] ]

\* Mutant of to_vec_loop: every slot of a block is read, initialised or not.
RECURSIVE to_vec_loop_whole_block(_, _, _, _, _, _)
to_vec_loop_whole_block(list, m, f, result, block_idx, remaining) ==
    IF block_idx >= BLOCK_COUNT \/ remaining = 0
    THEN [list |-> list, mem |-> m, fate |-> f, result |-> result]
    ELSE IF list.blocks[block_idx] = None
    THEN [list |-> list, mem |-> m, fate |-> f, result |-> result]
    ELSE LET ptr == Unwrap(list.blocks[block_idx])
             take == list.block_lengths[block_idx]
             r == read_slots(m, f, ptr, take)
         IN  to_vec_loop_whole_block([list EXCEPT !.blocks[block_idx] = None],
                                     r.mem, r.fate, result \o r.values,
                                     block_idx + 1, remaining - Min(remaining, take))

\* The loop of SegmentedList::to_vec over the blocks.
RECURSIVE to_vec_loop(_, _, _, _, _, _)
to_vec_loop(list, m, f, result, block_idx, remaining) ==
    IF block_idx >= BLOCK_COUNT \/ remaining = 0
    THEN [list |-> list, mem |-> m, fate |-> f, result |-> result]
    ELSE IF list.blocks[block_idx] = None
    THEN [list |-> list, mem |-> m, fate |-> f, result |-> result]
    ELSE LET ptr == Unwrap(list.blocks[block_idx])
             take == Min(remaining, list.block_lengths[block_idx])
             r == read_slots(m, f, ptr, take)
         IN  to_vec_loop([list EXCEPT !.blocks[block_idx] = None], r.mem, r.fate,
                         result \o r.values, block_idx + 1, remaining - take)

to_vec(list, m, f) == to_vec_loop(list, m, f, << >>, 0, list.len)

\* SegmentedAlloc::free, which Drop for SegmentedList calls and alloc.rs does
\* not define: one pass over the block table that unmaps every block the
\* arena has mapped, up to the first entry that is empty.
RECURSIVE free_loop(_, _, _)
free_loop(c, o, i) ==
    IF i >= MAX_BLOCKS \/ c.block_sizes[i] = 0 \/ c.blocks[i] = None
    THEN o
    ELSE free_loop(c, munmap(o, Unwrap(c.blocks[i]), c.block_sizes[i]), i + 1)

free(c, o) == free_loop(c, o, 0)

\* Mutant of drop_list: the arena is not released.
drop_list_forget(list, o) == o

\* impl Drop for SegmentedList: releases the arena, touches no element.
drop_list(list, o) == free(list.allocator, o)

\* The list goes out of scope.
Drop(l) ==
    /\ pc = "running"
    /\ l \in live
    /\ os' = drop_list(lists[l], os)
    /\ live' = live \ {l}
    /\ ret' = Done("drop", l, 0)
    /\ cached' = None
    /\ UNCHANGED << elem, mem, lists, pc, nextId, model, maxlen, nclears,
                    collected, fate, vec, ctx, allocs, idx_in, idx_out,
                    threads, freed >>

\* let v = list.to_vec(): the list is consumed, and dropped when to_vec
\* returns.
ToVec(l) ==
    /\ pc = "running"
    /\ l \in live
    /\ LET r == to_vec(lists[l], mem, fate)
       IN  /\ lists' = [lists EXCEPT ![l] = r.list]
           /\ mem' = r.mem
           /\ fate' = r.fate
           /\ vec' = r.result
           /\ os' = drop_list(r.list, os)
    /\ live' = live \ {l}
    /\ ret' = Done("to_vec", l, 0)
    /\ cached' = None
    /\ UNCHANGED << elem, pc, nextId, model, maxlen, nclears, collected, ctx,
                    allocs, idx_in, idx_out, threads, freed >>

PushA == Push("a", MaxPushes)
ClearA == Clear("a", MaxClears)
ToVecA == ToVec("a")

\* The list program: pushes, clears, and finally to_vec.
Next == PushA \/ ClearA \/ ToVecA

Spec == Init /\ [][Next]_vars

\* -------------------------------------------------- the disposal program

PushSmallA == Push("a", MaxSmallPushes)
DropA == Drop("a")

\* Pushes and clears, until the list is dropped or consumed by to_vec.
NextDrop == PushSmallA \/ ClearA \/ ToVecA \/ DropA

SpecDrop == Init /\ [][NextDrop]_vars

\* -------------------------------------------------- the accessor program

\* The indices the accessors are called with: every index that ever held an
\* element, and the two after them.
Probes(l) == 0..(maxlen[l] + 1)

\* An accessor of list l was called with idx and returned r; a panic ends
\* the program.
Access(op, l, idx, r) ==
    /\ ret' = Ret(op, l, idx, r)
    /\ pc' = IF r.panic THEN "aborted" ELSE "running"
    /\ UNCHANGED << elem, os, mem, lists, live, nextId, model, maxlen, nclears,
                    collected, fate, vec, cached, ctx, allocs, idx_in, idx_out,
                    threads, freed >>

\* list.get(idx)
Get(l) ==
    /\ pc = "running" /\ l \in live
    /\ \E idx \in Probes(l) : Access("get", l, idx, get(lists[l], mem, idx))

\* list.get_mut(idx)
GetMut(l) ==
    /\ pc = "running" /\ l \in live
    /\ \E idx \in Probes(l) : Access("get_mut", l, idx, get_mut(lists[l], mem, idx))

\* &list[idx]
Index(l) ==
    /\ pc = "running" /\ l \in live
    /\ \E idx \in Probes(l) : Access("index", l, idx, index(lists[l], mem, idx))

\* &mut list[idx]
IndexMut(l) ==
    /\ pc = "running" /\ l \in live
    /\ \E idx \in Probes(l) : Access("index_mut", l, idx, index_mut(lists[l], mem, idx))

GetA == Get("a")
GetMutA == GetMut("a")
IndexA == Index("a")
IndexMutA == IndexMut("a")

NextAccess == PushSmallA \/ ClearA \/ GetA \/ GetMutA \/ IndexA \/ IndexMutA

SpecAccess == Init /\ [][NextAccess]_vars

\* ---------------------------------------------- the cached index program

\* let cached_idx = list.compute_segmented_idx(idx): the caller keeps the
\* token, if it got one.
ComputeSegmentedIdx(l) ==
    /\ pc = "running" /\ l \in live
    /\ \E idx \in Probes(l) :
          LET token == compute_segmented_idx(lists[l], idx)
          IN  /\ cached' = IF token = None THEN None
                           ELSE Some([idx |-> idx, si |-> Unwrap(token)])
              /\ ret' = [Done("compute_segmented_idx", l, idx) EXCEPT !.res = token]
    /\ UNCHANGED << elem, os, mem, lists, live, pc, nextId, model, maxlen,
                    nclears, collected, fate, vec, ctx, allocs, idx_in,
                    idx_out, threads, freed >>

\* list.get_with_segmented_idx(cached_idx)
GetWithSegmentedIdx(l) ==
    /\ pc = "running" /\ l \in live
    /\ cached # None
    /\ ret' = Ret("get_with_segmented_idx", l, Unwrap(cached).idx,
                  get_with_segmented_idx(lists[l], mem, Unwrap(cached).si))
    /\ UNCHANGED << elem, os, mem, lists, live, pc, nextId, model, maxlen,
                    nclears, collected, fate, vec, cached, ctx, allocs, idx_in,
                    idx_out, threads, freed >>

\* list.get_mut_with_segmented_idx(cached_idx)
GetMutWithSegmentedIdx(l) ==
    /\ pc = "running" /\ l \in live
    /\ cached # None
    /\ ret' = Ret("get_mut_with_segmented_idx", l, Unwrap(cached).idx,
                  get_mut_with_segmented_idx(lists[l], mem, Unwrap(cached).si))
    /\ UNCHANGED << elem, os, mem, lists, live, pc, nextId, model, maxlen,
                    nclears, collected, fate, vec, cached, ctx, allocs, idx_in,
                    idx_out, threads, freed >>

ComputeSegmentedIdxA == ComputeSegmentedIdx("a")
GetWithSegmentedIdxA == GetWithSegmentedIdx("a")
GetMutWithSegmentedIdxA == GetMutWithSegmentedIdx("a")

NextCache == PushSmallA \/ ClearA \/ ComputeSegmentedIdxA
                \/ GetWithSegmentedIdxA \/ GetMutWithSegmentedIdxA

SpecCache == Init /\ [][NextCache]_vars

\* ----------------------------------------------------- the clone program

\* impl Extend: the elements first .. first + n - 1 are pushed in turn.
\* st is the list, the mappings and the memory after the pushes so far; it
\* is bound once (s) at each step.
RECURSIVE extend(_, _, _, _)
extend(st, first, n, gap) ==
    CHOOSE out \in
        { IF n = 0 \/ s.abort # ""
          THEN s
          ELSE extend(push(s.list, s.os, s.mem, first, gap),
                      first + 1, n - 1, gap) : s \in {st} } : TRUE

\* impl FromIterator: (1..=n).collect()
from_iter(o, n, gap) ==
    LET s == SegmentedList_new(o, gap)
    IN  extend([list |-> s.list, os |-> s.os, mem |-> << >>,
                abort |-> s.abort], 1, n, gap)

\* The lengths of the lists the clone program starts from: empty, inside
\* the first block, the first block full, one element in the second block.
CollectLens == {0, 3, START_SIZE, START_SIZE + 1}

\* The state after `let mut a: SegmentedList<_> = (1..=n).collect()`.
InitCollect ==
    /\ elem \in ElemTypes
    /\ \E n \in CollectLens, gap \in MmapGaps :
          LET r == from_iter(NoMappings, n, gap)
          IN  /\ lists = [l \in {"a"} |-> r.list]
              /\ os = r.os
              /\ mem = r.mem
              /\ collected = n
              /\ nextId = n + 1
              /\ model = [l \in Lists |-> IF l = "a" THEN [i \in 1..n |-> i] ELSE << >>]
              /\ maxlen = [l \in Lists |-> IF l = "a" THEN n ELSE 0]
              /\ fate = [id \in 1..n |-> [drops |-> 0, moves |-> 0]]
    /\ live = {"a"}
    /\ pc = "running"
    /\ nclears = [l \in Lists |-> 0]
    /\ ret = NoRet
    /\ vec = << >>
    /\ cached = None
    /\ NewArena
    /\ NoIdx
    /\ NoThreads


\* let b = a.clone()
Clone ==
    /\ pc = "running"
    /\ "a" \in live
    /\ "b" \notin DOMAIN lists
    /\ \E gap \in MmapGaps :
          LET r == clone(lists["a"], os, mem, gap)
          IN  /\ lists' = [l \in {"a", "b"} |-> IF l = "a" THEN lists["a"] ELSE r.list]
              /\ os' = r.os
              /\ mem' = r.mem
              /\ pc' = IF r.abort = "" THEN "running" ELSE "aborted"
    /\ live' = live \cup {"b"}
    /\ model' = [model EXCEPT !["b"] = model["a"]]
    /\ maxlen' = [maxlen EXCEPT !["b"] = lists["a"].len]
    /\ ret' = [Done("clone", "b", 0) EXCEPT !.reads = clone_reads(lists["a"])]
    /\ UNCHANGED << elem, nextId, nclears, collected, fate, vec, cached, ctx,
                    allocs, idx_in, idx_out, threads, freed >>

\* list[idx] = v with a new element v of a Copy type, for the first index,
\* the last one or the one after it: index_mut, then the store through the
\* reference it returned.
WriteElem(l) ==
    /\ pc = "running"
    /\ l \in live
    /\ nextId <= collected + MaxCloneCreations
    /\ \E idx \in {0, lists[l].len - 1, lists[l].len} \cap Nat :
          LET r == index_mut(lists[l], mem, idx)
          IN  /\ ret' = Ret("write", l, idx, r)
              /\ pc' = IF r.panic THEN "aborted" ELSE "running"
              /\ mem' = IF r.panic THEN mem ELSE write(mem, Unwrap(r.at), nextId)
              /\ model' = IF r.panic THEN model
                          ELSE [model EXCEPT ![l][idx + 1] = nextId]
    /\ fate' = [id \in DOMAIN fate \cup {nextId} |->
                  IF id = nextId THEN [drops |-> 0, moves |-> 0] ELSE fate[id]]
    /\ nextId' = nextId + 1
    /\ UNCHANGED << elem, os, lists, live, maxlen, nclears, collected, vec,
                    cached, ctx, allocs, idx_in, idx_out, threads, freed >>

PushCloneA == Push("a", collected + MaxCloneCreations)
PushCloneB == Push("b", collected + MaxCloneCreations)
ClearCloneA == Clear("a", MaxCloneClears)
ClearCloneB == Clear("b", MaxCloneClears)
WriteElemA == WriteElem("a")
WriteElemB == WriteElem("b")

NextClone == PushCloneA \/ ClearCloneA \/ WriteElemA \/ Clone
                \/ PushCloneB \/ ClearCloneB \/ WriteElemB

SpecClone == InitCollect /\ [][NextClone]_vars

\* --------------------------------------------------- the ceiling program

\* The element types of the ceiling program: u8 and u16, with which the
\* list's largest length takes 128 MiB and 256 MiB.
CeilElemTypes == { [size |-> 1, align |-> 1], [size |-> 2, align |-> 2] }

\* The blocks block .. last of the list are allocated in turn, each by
\* alloc_block, as the pushes that first reach them do.
RECURSIVE alloc_blocks(_, _, _, _)
alloc_blocks(st, block, last, gap) ==
    CHOOSE out \in
        { IF block > last \/ s.abort # ""
          THEN s
          ELSE alloc_blocks(alloc_block(s.list, s.os, block, gap),
                            block + 1, last, gap) : s \in {st} } : TRUE

\* The list that n >= 1 pushes leave behind on a new list, without the n
\* pushes being run one by one: the blocks up to the one of index n - 1 are
\* allocated in order, len is n.  (The n elements are not entered in mem.)
pushed(o, n, gap) ==
    LET s == SegmentedList_new(o, gap)
        r == alloc_blocks(s, 1, idx_to_block_idx(n - 1)[1], gap)
    IN  [list |-> [r.list EXCEPT !.len = n], os |-> r.os, abort |-> r.abort]

\* The largest length of a list: START_SIZE * (2^BLOCK_COUNT - 1).
TotalCapacity == START_SIZE * ((2 ^ BLOCK_COUNT) - 1)

\* The state after `let mut a: SegmentedList<_> = (0..n).collect()`, for n up
\* to MaxCeilRoom below the largest length.  mem, model and fate follow the
\* elements pushed from here on.
InitCeil ==
    /\ elem \in CeilElemTypes
    /\ \E room \in 0..MaxCeilRoom, gap \in MmapGaps :
          LET r == pushed(NoMappings,
                          TotalCapacity - room, gap)
          IN  /\ lists = [l \in {"a"} |-> r.list]
              /\ os = r.os
              /\ collected = TotalCapacity - room
              /\ maxlen = [l \in Lists |-> IF l = "a" THEN TotalCapacity - room ELSE 0]
    /\ mem = << >>
    /\ nextId = 1
    /\ model = [l \in Lists |-> << >>]
    /\ fate = << >>
    /\ live = {"a"}
    /\ pc = "running"
    /\ nclears = [l \in Lists |-> 0]
    /\ ret = NoRet
    /\ vec = << >>
    /\ cached = None
    /\ NewArena
    /\ NoIdx
    /\ NoThreads

PushCeilA == Push("a", MaxCeilRoom + 1)

NextCeil == PushCeilA

SpecCeil == InitCeil /\ [][NextCeil]_vars

\* ------------------------------------------- the index mapping program

\* The indices the mapping is applied to: the first ones, and the last
\* index of every block with the two after it.
IdxSamples ==
    { i \in (0..MaxIdx) \cup
            { START_SIZE * ((2 ^ b) - 1) + d : b \in 1..BLOCK_COUNT, d \in {0 - 1, 0, 1} } :
        i < TotalCapacity }

InitIdx ==
    /\ NoList
    /\ os = NoMappings
    /\ NothingYet
    /\ NewArena
    /\ idx_in \in IdxSamples
    /\ idx_out = None
    /\ NoThreads

\* let SegmentedIdx(block, block_index) = self.idx_to_block_idx(idx)
MapIdx ==
    /\ idx_out = None
    /\ idx_out' = Some(idx_to_block_idx(idx_in))
    /\ UNCHANGED << elem, os, mem, lists, live, pc, nextId, model, maxlen,
                    nclears, collected, fate, ret, vec, cached, ctx, allocs,
                    idx_in, threads, freed >>

NextIdx == MapIdx

SpecIdx == InitIdx /\ [][NextIdx]_vars

\* ------------------------------------------------- the allocator program

\* The layouts requested: [size, align], align a power of two.  Among them
\* a zero-size layout (Layout::from_size_align(0, 8) is a valid Layout), a
\* size that is no multiple of its alignment, and sizes beyond the first
\* block and beyond its double.
Layouts ==
    { [size |-> 0, align |-> 8], [size |-> 1, align |-> 1],
      [size |-> 24, align |-> 8], [size |-> 100, align |-> 64],
      [size |-> 3000, align |-> 8], [size |-> 5000, align |-> 8],
      [size |-> 10000, align |-> 8], [size |-> 64, align |-> 8192] }

InitAlloc ==
    /\ NoList
    /\ os = NoMappings
    /\ NothingYet
    /\ NewArena
    /\ NoIdx
    /\ NoThreads

\* GlobalAlloc::alloc
alloc(c, o, size, align, gap) == request(c, o, size, align, gap)

\* A.alloc(layout)
Alloc ==
    /\ pc = "running"
    /\ Len(allocs) < MaxRequests
    /\ \E layout \in Layouts, gap \in MmapGaps :
          LET r == alloc(ctx, os, layout.size, layout.align, gap)
          IN  /\ ctx' = r.ctx
              /\ os' = r.os
              /\ pc' = IF r.abort = "" THEN "running" ELSE "aborted"
              /\ allocs' = IF r.abort = ""
                           THEN Append(allocs, [ptr |-> Unwrap(r.ptr),
                                                size |-> layout.size,
                                                align |-> layout.align,
                                                block |-> r.ctx.cur_block])
                           ELSE allocs
    /\ UNCHANGED << elem, mem, lists, live, nextId, model, maxlen, nclears,
                    collected, fate, ret, vec, cached, idx_in, idx_out,
                    threads, freed >>

NextAlloc == Alloc

SpecAlloc == InitAlloc /\ [][NextAlloc]_vars

\* ------------------------------------------------- the release program

\* Mutant of dealloc: releasing an allocation rewinds the cursor of the
\* active block to its start.
dealloc_rewind(c, o, ptr, size, align) == [ctx |-> [c EXCEPT !.pos = 0], os |-> o]

\* GlobalAlloc::dealloc: the body is empty (but for the trace output).
dealloc(c, o, ptr, size, align) == [ctx |-> c, os |-> o]

\* A.dealloc(ptr, layout) for an allocation the program holds and has not
\* released yet; freed keeps which, and after how many requests.
Dealloc ==
    /\ pc = "running"
    /\ Cardinality(freed) < MaxReleases
    /\ \E i \in 1..Len(allocs) :
          /\ \A f \in freed : f.alloc # i
          /\ LET r == dealloc(ctx, os, allocs[i].ptr, allocs[i].size,
                              allocs[i].align)
             IN  /\ ctx' = r.ctx
                 /\ os' = r.os
          /\ freed' = freed \cup { [alloc |-> i, after |-> Len(allocs)] }
    /\ UNCHANGED << elem, mem, lists, live, pc, nextId, model, maxlen,
                    nclears, collected, fate, ret, vec, cached, allocs,
                    idx_in, idx_out, threads >>

\* Requests and releases of the allocations they returned.
NextRelease == Alloc \/ Dealloc

SpecRelease == InitAlloc /\ [][NextRelease]_vars

\* -------------------------------------------------- usize, 64 bits wide

\* A usize of the x86-64 targets of src/src/mmap.rs, as the programs below
\* compute with it: LIMBS limbs of 16 bits, the least significant first.
LIMB == 65536
LIMBS == 4

\* The usize of a number below 2^31.
U(n) == << n % LIMB, n \div LIMB, 0, 0 >>

\* 2^k as a usize, k < 64.
Pow2(k) == [i \in 1..LIMBS |-> IF i = (k \div 16) + 1 THEN 2 ^ (k % 16) ELSE 0]

\* The carry out of limb i of a + b.
RECURSIVE add_carry(_, _, _)
add_carry(a, b, i) ==
    IF i = 0 THEN 0 ELSE (a[i] + b[i] + add_carry(a, b, i - 1)) \div LIMB

\* usize::wrapping_add: a + b modulo 2^64
wrapping_add(a, b) ==
    [i \in 1..LIMBS |-> (a[i] + b[i] + add_carry(a, b, i - 1)) % LIMB]

\* usize::checked_add
checked_add(a, b) ==
    IF add_carry(a, b, LIMBS) > 0 THEN None ELSE Some(wrapping_add(a, b))

\* The carry out of limb i of a * k, k at most LIMB.
RECURSIVE mul_carry(_, _, _)
mul_carry(a, k, i) ==
    IF i = 0 THEN 0 ELSE (a[i] * k + mul_carry(a, k, i - 1)) \div LIMB

\* usize::wrapping_mul: a * k modulo 2^64
wrapping_mul(a, k) ==
    [i \in 1..LIMBS |-> (a[i] * k + mul_carry(a, k, i - 1)) % LIMB]

\* usize::checked_mul
checked_mul(a, k) ==
    IF mul_carry(a, k, LIMBS) > 0 THEN None ELSE Some(wrapping_mul(a, k))

\* a < b and a <= b
lt(a, b) ==
    \E i \in 1..LIMBS : a[i] < b[i] /\ \A j \in (i + 1)..LIMBS : a[j] = b[j]
le(a, b) == a = b \/ lt(a, b)

\* The two builds: with overflow checks an arithmetic overflow panics,
\* without them the result wraps.
Builds == {"debug", "release"}

\* a + b and a * k as the build computes them: None is the panic.
add_u64(build, a, b) ==
    IF build = "debug" THEN checked_add(a, b) ELSE Some(wrapping_add(a, b))
mul_u64(build, a, k) ==
    IF build = "debug" THEN checked_mul(a, k) ELSE Some(wrapping_mul(a, k))

\* usize::next_multiple_of(rhs), rhs a power of two up to LIMB.
next_multiple_of_u64(build, x, rhs) ==
    LET r == x[1] % rhs
    IN  IF r = 0 THEN Some(x) ELSE add_u64(build, x, U(rhs - r))

\* Layout::pad_to_align().size(): a Layout's size rounded up to its
\* alignment is at most isize::MAX, the rounding cannot overflow.
pad_to_align_u64(size, align) ==
    Unwrap(next_multiple_of_u64("release", size, align))

\* Mutant of mmap_u64: the operating system grants every request, of any
\* length and at any address.
mmap_u64_unlimited(o, length) ==
    LET base == wrapping_add(o.next, U(o.gap * PAGE_SIZE))
    IN  [ ptr |-> Some(base),
          os  |-> [ o EXCEPT
                      !.next = wrapping_add(base,
                                   pad_to_align_u64(length, PAGE_SIZE)),
                      !.mapped = @ \cup { <<base, length>> } ] ]

\* mmap(None, length, ...) with a 64-bit length.  The system call fails
\* (ret < 0, on which mmap aborts the process) for a length of zero and for
\* a mapping that does not fit below o.limit; ptr is None then.
mmap_u64(o, length) ==
    LET base == wrapping_add(o.next, U(o.gap * PAGE_SIZE))
        span == next_multiple_of_u64("debug", length, PAGE_SIZE)
        top  == IF span = None THEN None ELSE checked_add(base, Unwrap(span))
    IN  IF length = U(0) \/ top = None \/ lt(o.limit, Unwrap(top))
        THEN [ptr |-> None, os |-> o]
        ELSE [ ptr |-> Some(base),
               os  |-> [ o EXCEPT !.next = Unwrap(top),
                                  !.mapped = @ \cup { <<base, length>> } ] ]

\* The address space the operating system hands out: the user space of
\* x86-64 with four-level paging, or all that mmap can return as a success
\* (a ret that is not negative as isize).
AddressLimits == { Pow2(47), Pow2(63) }

\* SegmentedAllocCtx::new with 64-bit fields.
SegmentedAllocCtx_new_u64 ==
    [ cur_block   |-> 0,
      size        |-> U(MIN_SIZE),
      pos         |-> U(0),
      blocks      |-> [i \in 0..(MAX_BLOCKS - 1) |-> None],
      block_sizes |-> [i \in 0..(MAX_BLOCKS - 1) |-> U(0)] ]

\* ------------------------------------- request, one statement at a time

\* The threads that call A.alloc on the one arena (SegmentedAlloc is
\* Send + Sync).
Threads == {1, 2}

\* A thread outside request: its locals hold nothing.  calls, raced and
\* grown (the growth steps of the thread's present call) are ghosts.
Idle ==
    [ pc |-> "idle", layout |-> [size |-> U(0), align |-> 1],
      offset |-> U(0), end |-> U(0), new_size |-> U(0), block |-> None,
      calls |-> 0, raced |-> FALSE, grown |-> 0 ]

\* The variables no statement of request touches.
AllocFrame ==
    UNCHANGED << elem, mem, lists, live, nextId, model, maxlen, nclears,
                 collected, fate, ret, vec, cached, idx_in, idx_out, freed >>

\* Thread t is at position p of request.
At(t, p) == pc = "running" /\ threads[t].pc = p

\* Thread t moves on to position p with the locals changed as in l.
Goto(t, p, l) == threads' = [threads EXCEPT ![t] = [l EXCEPT !.pc = p]]

\* The process has aborted: a panic, or process::abort in mmap.
Abort == pc' = "aborted" /\ UNCHANGED << ctx, os, allocs, threads >>

\* Thread t calls A.alloc(layout) with a layout of layouts, while fewer
\* than bound calls were made.  A call that starts while another thread is
\* inside request ends the strictly sequential use of the arena.
Call(t, layouts, bound) ==
    /\ At(t, "idle")
    /\ threads[1].calls + threads[2].calls < bound
    /\ \E layout \in layouts :
          LET concurrent == \E u \in Threads \ {t} : threads[u].pc # "idle"
          IN  threads' =
                [u \in Threads |->
                   IF u = t
                   THEN [threads[u] EXCEPT !.pc = "entry", !.layout = layout,
                                           !.calls = @ + 1,
                                           !.raced = @ \/ concurrent]
                   ELSE [threads[u] EXCEPT !.raced = @ \/ concurrent]]
    /\ UNCHANGED << ctx, os, allocs, pc >>
    /\ AllocFrame

\* src/src/alloc.rs:61-63: is the first block mapped?
Enter(t) ==
    /\ At(t, "entry")
    /\ IF ctx.blocks[0] = None
       THEN /\ ctx' = [ctx EXCEPT !.block_sizes[0] = U(MIN_SIZE)]
            /\ Goto(t, "first", threads[t])
       ELSE /\ ctx' = ctx
            /\ Goto(t, "loop", threads[t])
    /\ UNCHANGED << os, allocs, pc >>
    /\ AllocFrame

\* src/src/alloc.rs:64-72: map the first block.
MapFirst(t) ==
    /\ At(t, "first")
    /\ LET m == mmap_u64(os, U(MIN_SIZE))
       IN  IF m.ptr = None
           THEN Abort
           ELSE /\ os' = m.os
                /\ ctx' = [ctx EXCEPT !.blocks[0] = m.ptr]
                /\ Goto(t, "loop", threads[t])
                /\ UNCHANGED << allocs, pc >>
    /\ AllocFrame

\* src/src/alloc.rs:76-83: where would the allocation start and end, and
\* does it fit in the active block?
Measure(t) ==
    /\ At(t, "loop")
    /\ \E build \in Builds :
          LET layout == threads[t].layout
              offset == next_multiple_of_u64(build, ctx.pos, layout.align)
              padded_size == pad_to_align_u64(layout.size, layout.align)
              end == IF offset = None THEN None
                     ELSE checked_add(Unwrap(offset), padded_size)
          IN  IF end = None
              THEN Abort
              ELSE /\ Goto(t, IF lt(ctx.size, Unwrap(end)) THEN "grow" ELSE "bump",
                           [threads[t] EXCEPT !.offset = Unwrap(offset),
                                              !.end = Unwrap(end)])
                   /\ UNCHANGED << ctx, os, allocs, pc >>
    /\ AllocFrame

\* src/src/alloc.rs:84-93: the ceiling, the next capacity, the mapping.
GrowMap(t) ==
    /\ At(t, "grow")
    /\ \E build \in Builds :
          LET new_size == mul_u64(build, ctx.size, GROWTH)
              m == mmap_u64(os, Unwrap(new_size))
          IN  IF ~(ctx.cur_block + 1 < MAX_BLOCKS) \/ new_size = None
              THEN Abort
              ELSE IF m.ptr = None
              THEN Abort
              ELSE /\ os' = m.os
                   /\ Goto(t, "install",
                           [threads[t] EXCEPT !.new_size = Unwrap(new_size),
                                              !.block = m.ptr,
                                              !.grown = @ + 1])
                   /\ UNCHANGED << ctx, allocs, pc >>
    /\ AllocFrame

\* Mutant of Install: the block that was mapped is not made the active
\* one, the capacity stays.
Install_skip(t) ==
    /\ At(t, "install")
    /\ Goto(t, "loop", threads[t])
    /\ UNCHANGED << ctx, os, allocs, pc >>
    /\ AllocFrame

\* src/src/alloc.rs:94-99: the new block becomes the active one.
Install(t) ==
    /\ At(t, "install")
    /\ LET cb == ctx.cur_block + 1
       IN  IF cb >= MAX_BLOCKS
           THEN Abort
           ELSE /\ ctx' = [ cur_block   |-> cb,
                            size        |-> threads[t].new_size,
                            pos         |-> U(0),
                            blocks      |-> [ctx.blocks EXCEPT
                                               ![cb] = threads[t].block],
                            block_sizes |-> [ctx.block_sizes EXCEPT
                                               ![cb] = threads[t].new_size] ]
                /\ Goto(t, "loop", threads[t])
                /\ UNCHANGED << os, allocs, pc >>
    /\ AllocFrame

\* Mutant of Return: the address is returned, the cursor stays.
Return_keep_cursor(t) ==
    /\ At(t, "bump")
    /\ ctx.blocks[ctx.cur_block] # None
    /\ allocs' = Append(allocs,
                    [ ptr    |-> wrapping_add(Unwrap(ctx.blocks[ctx.cur_block]),
                                              threads[t].offset),
                      size   |-> threads[t].layout.size,
                      align  |-> threads[t].layout.align,
                      block  |-> ctx.cur_block,
                      thread |-> t ])
    /\ Goto(t, "idle", [Idle EXCEPT !.calls = threads[t].calls,
                                    !.raced = threads[t].raced])
    /\ UNCHANGED << ctx, os, pc >>
    /\ AllocFrame

\* src/src/alloc.rs:102-106: the address, the cursor, the return.
Return(t) ==
    /\ At(t, "bump")
    /\ LET block == ctx.blocks[ctx.cur_block]
       IN  IF block = None
           THEN Abort
           ELSE /\ ctx' = [ctx EXCEPT !.pos = threads[t].end]
                /\ allocs' = Append(allocs,
                                [ ptr    |-> wrapping_add(Unwrap(block),
                                                          threads[t].offset),
                                  size   |-> threads[t].layout.size,
                                  align  |-> threads[t].layout.align,
                                  block  |-> ctx.cur_block,
                                  thread |-> t ])
                /\ Goto(t, "idle",
                        [Idle EXCEPT !.calls = threads[t].calls,
                                     !.raced = threads[t].raced])
                /\ UNCHANGED << os, pc >>
    /\ AllocFrame

\* The state of a program with a new arena and threads that have not
\* called it; the operating system's address space and its placement of
\* mappings are its own choice.
InitThreads ==
    /\ NoList
    /\ NothingYet
    /\ NoIdx
    /\ freed = {}
    /\ ctx = SegmentedAllocCtx_new_u64
    /\ allocs = << >>
    /\ threads = [t \in Threads |-> Idle]
    /\ \E limit \in AddressLimits, gap \in MmapGaps :
          os = [ next |-> U(PAGE_SIZE), mapped |-> {}, released |-> << >>,
                 limit |-> limit, gap |-> gap ]

\* --------------------------------------------- the growth program (64 bit)

\* Calls of A.alloc in one run of the growth program.
MaxWideRequests == 2

\* The layouts of the growth program: small ones, and sizes near the
\* largest a Layout can have (isize::MAX) and near the address limits.
WideLayouts ==
    { [size |-> U(8), align |-> 8],
      [size |-> U(5000), align |-> 8],
      [size |-> Pow2(46), align |-> 4096],
      [size |-> Pow2(62), align |-> 8],
      [size |-> wrapping_add(Pow2(62), U(8)), align |-> 8],
      [size |-> << LIMB - 8, LIMB - 1, LIMB - 1, (LIMB \div 2) - 1 >>,
       align |-> 8] }

CallWide == Call(1, WideLayouts, MaxWideRequests)
EnterWide == Enter(1)
MapFirstWide == MapFirst(1)
MeasureWide == Measure(1)
GrowMapWide == GrowMap(1)
InstallWide == Install(1)
ReturnWide == Return(1)

\* One thread calls A.alloc, one call after the other.
NextWide ==
    \/ CallWide \/ EnterWide \/ MapFirstWide \/ MeasureWide
    \/ GrowMapWide \/ InstallWide \/ ReturnWide

SpecWide == InitThreads /\ [][NextWide]_vars

\* The thread that is inside request runs on: nothing in request waits,
\* and the program has no other thread.
SpecWideFair == SpecWide /\ WF_vars(NextWide)

\* ------------------------------------------------ the two-thread program

\* Calls of A.alloc, of both threads together, in one run.
MaxRaceRequests == 2

\* The layouts the two threads request.
RaceLayouts == { [size |-> U(8), align |-> 8], [size |-> U(5000), align |-> 8] }

CallT1 == Call(1, RaceLayouts, MaxRaceRequests)
EnterT1 == Enter(1)
MapFirstT1 == MapFirst(1)
MeasureT1 == Measure(1)
GrowMapT1 == GrowMap(1)
InstallT1 == Install(1)
ReturnT1 == Return(1)
CallT2 == Call(2, RaceLayouts, MaxRaceRequests)
EnterT2 == Enter(2)
MapFirstT2 == MapFirst(2)
MeasureT2 == Measure(2)
GrowMapT2 == GrowMap(2)
InstallT2 == Install(2)
ReturnT2 == Return(2)

\* Two threads call A.alloc on the same arena with no lock around the
\* calls: their statements interleave in any order.
NextRace ==
    \/ CallT1 \/ EnterT1 \/ MapFirstT1 \/ MeasureT1
    \/ GrowMapT1 \/ InstallT1 \/ ReturnT1
    \/ CallT2 \/ EnterT2 \/ MapFirstT2 \/ MeasureT2
    \/ GrowMapT2 \/ InstallT2 \/ ReturnT2

SpecRace == InitThreads /\ [][NextRace]_vars

\* ------------------------------------------------------------------ C3

\* C3: the ranges [ptr, ptr + size) of the allocations of one arena are
\* pairwise disjoint, and every ptr is a multiple of its alignment.
AllocsDisjointAligned ==
    /\ \A i, j \in 1..Len(allocs) :
          i < j => \/ allocs[i].ptr + allocs[i].size <= allocs[j].ptr
                   \/ allocs[j].ptr + allocs[j].size <= allocs[i].ptr
    /\ \A i \in 1..Len(allocs) : allocs[i].ptr % allocs[i].align = 0

\* ------------------------------------------------------------------ C4

\* C4: for idx below START_SIZE * (2^BLOCK_COUNT - 1) the mapping returns a
\* block of the table and an offset inside it that give idx back; idx 0 and
\* the first index of a block map to offset 0 of that block; the block of
\* idx is not below the block of idx - 1.
IdxMappingExact ==
    idx_out # None =>
        LET block == Unwrap(idx_out)[1]
            offset == Unwrap(idx_out)[2]
        IN  /\ block \in 0..(BLOCK_COUNT - 1)
            /\ START_SIZE * ((2 ^ block) - 1) + offset = idx_in
            /\ 0 <= offset /\ offset < START_SIZE * (2 ^ block)
            /\ \A b \in 0..(BLOCK_COUNT - 1) :
                  idx_in = START_SIZE * ((2 ^ b) - 1) => block = b /\ offset = 0
            /\ idx_in > 0 => idx_to_block_idx(idx_in - 1)[1] <= block

\* C4 witness: the first index of the last block was mapped to its offset 0.
IdxMappingExactWitness ==
    /\ idx_in = START_SIZE * ((2 ^ (BLOCK_COUNT - 1)) - 1)
    /\ idx_out = Some(SegmentedIdx(BLOCK_COUNT - 1, 0))

\* ------------------------------------------------------------------ C1

Range(s) == { s[i] : i \in 1..Len(s) }

\* C1: with N values pushed since construction or the last clear(), len() is
\* N, get(i) is the i-th of them for every i < N, and get(N) is absent.
PushOrderGet ==
    \A l \in live :
        LET N == Len(model[l])
        IN  /\ len(lists[l]) = N
            /\ \A i \in 0..(N - 1) :
                  get(lists[l], mem, i).res = Some(model[l][i + 1])
            /\ get(lists[l], mem, N).res = None

\* C1 witness: after a clear() the list was refilled past the first block,
\* into blocks retained from before the clear.
PushOrderGetWitness ==
    /\ "a" \in live
    /\ nclears["a"] >= 1
    /\ lists["a"].len > START_SIZE
    /\ maxlen["a"] > lists["a"].len
    /\ get(lists["a"], mem, START_SIZE).res = Some(model["a"][START_SIZE + 1])

\* ------------------------------------------------------------------ C2

\* C2: a push leaves every earlier element where it was: get(i) refers to
\* the same address, holding the same element, before and after the push.
PointerStability ==
    [][ ret'.op = "push" =>
          \A i \in 0..(lists[ret'.l].len - 1) :
              /\ get(lists'[ret'.l], mem', i).at = get(lists[ret'.l], mem, i).at
              /\ get(lists'[ret'.l], mem', i).res = get(lists[ret'.l], mem, i).res
      ]_vars

\* C2 witness: a push has allocated a third list block and the arena has
\* mapped a third block for it, with element 0 still in the first one.
PointerStabilityWitness ==
    /\ ret.op = "push"
    /\ ret.idx = START_SIZE * 3
    /\ lists["a"].allocator.cur_block = 2
    /\ get(lists["a"], mem, 0).at = lists["a"].blocks[0]

\* ------------------------------------------------------------------ C8

AccessorOps == {"get", "get_mut", "index", "index_mut"}

\* C8: an accessor changes nothing; with idx >= len, get and get_mut return
\* absent and read no slot, and the indexing operators panic and read no
\* slot; with idx < len the indexing operators return what get(idx) returns.
OutOfRangeByKind ==
    [][ ret'.op \in AccessorOps =>
          LET list == lists[ret'.l]
              idx == ret'.idx
          IN  /\ lists' = lists /\ mem' = mem /\ fate' = fate /\ os' = os
              /\ (idx >= list.len /\ ret'.op \in {"get", "get_mut"}) =>
                    /\ ret'.res = None /\ ret'.at = None
                    /\ ret'.reads = {}
                    /\ ~ret'.panic /\ pc' = "running"
              /\ (idx >= list.len /\ ret'.op \in {"index", "index_mut"}) =>
                    /\ ret'.panic /\ pc' = "aborted"
                    /\ ret'.res = None
                    /\ ret'.reads = {}
              /\ (idx < list.len /\ ret'.op \in {"index", "index_mut"}) =>
                    /\ ~ret'.panic /\ pc' = "running"
                    /\ ret'.res = get(list, mem, idx).res
                    /\ ret'.at = get(list, mem, idx).at
                    /\ ret'.res = Some(model[ret'.l][idx + 1])
      ]_vars

\* C8 witness: list[idx] panicked for an idx >= len whose slot, in the second
\* block, still holds an element dropped by clear().
OutOfRangeByKindWitness ==
    /\ ret.op = "index"
    /\ ret.panic
    /\ ret.idx = START_SIZE
    /\ lists["a"].len <= START_SIZE
    /\ lists["a"].blocks[1] # None
    /\ SlotAddr(lists["a"], START_SIZE) \in DOMAIN mem
    /\ get(lists["a"], mem, START_SIZE).res = None

\* ------------------------------------------------------------------ C9

\* C9: what the fast path returns for a token is what get returns for the
\* index the token was computed for, and no token is computed for an index
\* that is not below len.
CachedIdxAgrees ==
    /\ ret.op \in {"get_with_segmented_idx", "get_mut_with_segmented_idx"} =>
          /\ ret.res = get(lists[ret.l], mem, ret.idx).res
          /\ ret.at = get(lists[ret.l], mem, ret.idx).at
    /\ (ret.op = "compute_segmented_idx" /\ ret.idx >= lists[ret.l].len) =>
          ret.res = None

\* ----------------------------------------------------------------- C10

\* What a caller sees of a list: its length and get(i) for every i < len.
View(list, m) == [len |-> list.len,
                  elems |-> [i \in 1..list.len |-> get(list, m, i - 1).res]]

\* The bytes of the allocated blocks of a list.
BlockRanges(list) ==
    { <<Unwrap(list.blocks[i]),
        Unwrap(list.blocks[i]) + list.block_lengths[i] * size_of_T>> :
        i \in {j \in 0..(BLOCK_COUNT - 1) : list.blocks[j] # None} }

\* The regions the arena of a list has mapped.
ArenaRanges(list) ==
    { <<Unwrap(list.allocator.blocks[i]),
        Unwrap(list.allocator.blocks[i]) + list.allocator.block_sizes[i]>> :
        i \in {j \in 0..(MAX_BLOCKS - 1) : list.allocator.blocks[j] # None} }

\* The blocks of list b lie in b's own arena, which shares no byte with a's,
\* and no block of b shares a byte with a block of a.
OwnStorage(a, b) ==
    /\ \A r \in BlockRanges(b) :
          \E q \in ArenaRanges(b) : q[1] <= r[1] /\ r[2] <= q[2]
    /\ \A q \in ArenaRanges(b), p \in ArenaRanges(a) : q[2] <= p[1] \/ p[2] <= q[1]
    /\ \A r \in BlockRanges(b), p \in BlockRanges(a) : r[2] <= p[1] \/ p[2] <= r[1]

Other(l) == IF l = "a" THEN "b" ELSE "a"

\* C10: clone() returns a list with the length and the elements of the
\* source, in storage of its own, and leaves the source as it was; after
\* that a push, an assignment or a clear() on one of the two lists leaves the
\* length and the elements of the other as they were.
CloneIndependent ==
    [][ /\ ret'.op = "clone" =>
              /\ View(lists'["b"], mem') = View(lists["a"], mem)
              /\ lists'["b"].len = Len(model["a"])
              /\ lists'["a"] = lists["a"]
              /\ View(lists'["a"], mem') = View(lists["a"], mem)
              /\ OwnStorage(lists'["a"], lists'["b"])
        /\ (ret'.op \in {"push", "write", "clear"} /\ "b" \in live) =>
              /\ View(lists'[Other(ret'.l)], mem') = View(lists[Other(ret'.l)], mem)
              /\ lists'[Other(ret'.l)] = lists[Other(ret'.l)]
              /\ OwnStorage(lists'["a"], lists'["b"])
      ]_vars

\* C10 witness: the clone of a list of 9 elements in two blocks still holds
\* those 9 elements after the source was cleared.
CloneIndependentWitness ==
    /\ live = {"a", "b"}
    /\ ret.op = "clear" /\ ret.l = "a"
    /\ lists["a"].len = 0
    /\ lists["b"].len = START_SIZE + 1
    /\ \A i \in 0..START_SIZE : get(lists["b"], mem, i).res = Some(i + 1)

\* ------------------------------------------------------------------ C5

Allocated(list, i) == list.blocks[i] # None

\* Capacity of the blocks before block i: START_SIZE * (2^i - 1).
BlockStart(i) == START_SIZE * ((2 ^ i) - 1)

\* Block capacities and capacity(): an allocated block i holds
\* START_SIZE * 2^i elements, an unallocated one none, the allocated blocks
\* are a prefix, and capacity() is their sum.
BlockShape(list) ==
    /\ \A i \in 0..(BLOCK_COUNT - 1) :
          /\ list.block_lengths[i] = IF Allocated(list, i)
                                      THEN START_SIZE * (2 ^ i) ELSE 0
          /\ (i > 0 /\ Allocated(list, i)) => Allocated(list, i - 1)
    /\ capacity(list) = BlockStart(Cardinality(
                            {i \in 0..(BLOCK_COUNT - 1) : Allocated(list, i)}))

\* The scenario of C5: eight pushes leave one block of capacity 8, the ninth
\* push allocates block 1 with capacity 16 and writes to its offset 0.
BoundaryScenario(l) ==
    /\ maxlen[l] = START_SIZE =>
          /\ \A i \in 1..(BLOCK_COUNT - 1) : ~Allocated(lists[l], i)
          /\ capacity(lists[l]) = START_SIZE
    /\ (ret.op = "push" /\ ret.l = l /\ ret.idx = START_SIZE /\ ~ret.panic) =>
          /\ Allocated(lists[l], 1)
          /\ lists[l].block_lengths[1] = 2 * START_SIZE
          /\ get(lists[l], mem, START_SIZE).at = lists[l].blocks[1]

\* C5 as stated: block i is allocated iff len has reached or exceeded
\* START_SIZE * (2^i - 1).
LazyBlocksAsStated ==
    "a" \in live =>
    /\ \A i \in 0..(BLOCK_COUNT - 1) :
          Allocated(lists["a"], i) <=> maxlen["a"] >= BlockStart(i)
    /\ BlockShape(lists["a"])
    /\ BoundaryScenario("a")

\* C5 amended: block 0 is allocated from construction on, and block i >= 1
\* is allocated iff len has exceeded START_SIZE * (2^i - 1), that is, iff an
\* element with an index inside block i has been pushed.
LazyBlocks ==
    "a" \in live =>
    /\ \A i \in 0..(BLOCK_COUNT - 1) :
          Allocated(lists["a"], i) <=> (i = 0 \/ maxlen["a"] > BlockStart(i))
    /\ BlockShape(lists["a"])
    /\ BoundaryScenario("a")

\* C5 witness: the 25th push has just allocated the third block.
LazyBlocksWitness ==
    /\ ret.op = "push"
    /\ ret.idx = BlockStart(2)
    /\ Allocated(lists["a"], 2)
    /\ capacity(lists["a"]) = BlockStart(3)

\* ------------------------------------------------------------------ C6

\* C6: to_vec() of a list of length N returns the N pushed values in push
\* order; each of them was moved out once, no other element was, and none
\* of them has been dropped, also not by the drop of the consumed list.
ToVecInOrder ==
    ret.op = "to_vec" =>
        /\ Len(vec) = lists[ret.l].len
        /\ vec = model[ret.l]
        /\ \A id \in DOMAIN fate :
              /\ fate[id].moves = IF id \in Range(model[ret.l]) THEN 1 ELSE 0
              /\ id \in Range(model[ret.l]) => fate[id].drops = 0
        /\ ret.l \notin live

\* C6 witness: to_vec() of a list whose 24 elements fill two blocks exactly,
\* refilled after a clear().
ToVecInOrderWitness ==
    /\ ret.op = "to_vec"
    /\ nclears[ret.l] >= 1
    /\ Len(vec) = BlockStart(2)
    /\ vec[Len(vec)] = nextId - 1

\* ------------------------------------------------------------------ C7

\* C7: clear() of a list of length N drops each of its N elements once and
\* nothing else, touches no slot of index >= N, sets len to 0 and leaves
\* capacity(), the blocks and their addresses as they were.
ClearDropsOnce ==
    [][ ret'.op = "clear" =>
          LET l == ret'.l
              N == lists[l].len
          IN  /\ lists'[l].len = 0
              /\ is_empty(lists'[l])
              /\ capacity(lists'[l]) = capacity(lists[l])
              /\ lists'[l].blocks = lists[l].blocks
              /\ lists'[l].block_lengths = lists[l].block_lengths
              /\ lists'[l].allocator = lists[l].allocator
              /\ \A id \in DOMAIN fate :
                    fate'[id].drops = fate[id].drops +
                        (IF id \in Range(model[l]) THEN 1 ELSE 0)
              /\ \A id \in Range(model[l]) : fate'[id].drops = 1
              /\ \A idx \in N..(capacity(lists[l]) - 1) :
                    SlotAddr(lists[l], idx) \in DOMAIN mem =>
                        mem'[SlotAddr(lists[l], idx)] = mem[SlotAddr(lists[l], idx)]
      ]_vars

\* C7 witness: a second clear() of a list of 9 elements whose blocks still
\* hold, behind them, elements dropped by the first clear().
ClearDropsOnceWitness ==
    /\ ret.op = "clear"
    /\ nclears["a"] = 2
    /\ Cardinality({id \in DOMAIN fate : fate[id].drops = 1}) > 2 * START_SIZE
    /\ \E a \in DOMAIN mem : mem[a].val = 1 /\ mem[a].st = "dropped"
    /\ \A id \in DOMAIN fate : fate[id].drops <= 1

\* ------------------------------------------------------------------ C11

\* The allocation the last successful request returned.
LastAlloc == allocs[Len(allocs)]

\* The step is a request that returned an address.
Granted == Len(allocs') = Len(allocs) + 1

\* The request of layout a would overflow the active block of arena c.
Overflows(c, a) == next_multiple_of(c.pos, a.align) + a.size > c.size

BlockBase(c, i) == Unwrap(c.blocks[i])

\* The step has mapped block i of the arena, with the capacity recorded.
NewlyMapped(i) ==
    /\ ctx'.blocks[i] # None
    /\ << BlockBase(ctx', i), ctx'.block_sizes[i] >> \in os'.mapped \ os.mapped

\* Allocation a lies inside block i of arena c.
InBlock(a, c, i) ==
    /\ BlockBase(c, i) <= a.ptr
    /\ a.ptr + a.size <= BlockBase(c, i) + c.block_sizes[i]

\* The scenario of C11: the first request, for 5000 bytes at alignment 8, has
\* mapped a block of 4096 and one of 8192 bytes and lies in the second.
GrowthScenario ==
    (Len(allocs) >= 1 /\ allocs[1].size = 5000 /\ allocs[1].align = 8) =>
        /\ ctx.block_sizes[0] = MIN_SIZE /\ ctx.block_sizes[1] = 2 * MIN_SIZE
        /\ { << BlockBase(ctx, i), ctx.block_sizes[i] >> : i \in {0, 1} }
               \subseteq os.mapped
        /\ allocs[1].block = 1
        /\ InBlock(allocs[1], ctx, 1)

ServingCursor == IF ctx'.cur_block = ctx.cur_block THEN ctx.pos ELSE 0

\* C20 as stated: a successful request returns the base of the serving block
\* plus the cursor rounded up to the alignment, and leaves the cursor at
\* that offset plus the size.
CursorAsStated ==
    [][ Granted =>
            LET a == LastAlloc'
                offset == next_multiple_of(ServingCursor, a.align)
            IN  /\ a.ptr = BlockBase(ctx', a.block) + offset
                /\ a.block = ctx'.cur_block
                /\ ctx'.pos = offset + a.size
      ]_vars

\* C20, amended: a successful request returns the base of the serving block
\* plus the cursor rounded up to the alignment, and leaves the cursor at
\* that offset plus the size rounded up to a multiple of the alignment.
CursorPadded ==
    [][ Granted =>
            LET a == LastAlloc'
                offset == next_multiple_of(ServingCursor, a.align)
            IN  /\ a.ptr = BlockBase(ctx', a.block) + offset
                /\ a.block = ctx'.cur_block
                /\ ctx'.pos = offset + next_multiple_of(a.size, a.align)
      ]_vars

\* C20 witness: after one byte, 100 bytes at alignment 64 were served at
\* offset 64 of the first block, and the cursor stands at 64 + 128.
CursorPaddedWitness ==
    /\ Len(allocs) = 2
    /\ allocs[1].size = 1
    /\ allocs[2].size = 100 /\ allocs[2].align = 64
    /\ allocs[2].ptr = BlockBase(ctx, 0) + 64
    /\ ctx.pos = 192

\* ------------------------------------------------------------------ C16

\* C16: a request of size zero is rejected: none is ever granted an address,
\* and the arena that has granted nothing has mapped nothing.
InvalidLayoutRejected ==
    /\ \A i \in 1..Len(allocs) : allocs[i].size # 0
    /\ Len(allocs) = 0 => (os.mapped = {} /\ ctx = SegmentedAllocCtx_new)

\* ------------------------------------------------------------------ C12

\* Nothing was called on the list since SegmentedList::new().
Fresh == ret.op = "none"

\* The mappings of the arena c, as the operating system sees them.
ArenaMappings(c) ==
    { << Unwrap(c.blocks[i]), c.block_sizes[i] >> :
        i \in { j \in 0..(MAX_BLOCKS - 1) : c.blocks[j] # None } }

BlockCeilingFatal ==
    [][ ret'.op = "push" =>
          IF lists["a"].len < TotalCapacity
          THEN /\ ~ret'.panic /\ pc' = "running"
               /\ lists'["a"].len = lists["a"].len + 1
               /\ idx_to_block_idx(lists["a"].len)[1] < BLOCK_COUNT
               /\ get(lists'["a"], mem', lists["a"].len).res = Some(nextId)
               /\ lists'["a"].blocks = lists["a"].blocks
          ELSE /\ lists["a"].len = TotalCapacity
               /\ idx_to_block_idx(lists["a"].len)[1] = BLOCK_COUNT
               /\ ret'.panic /\ pc' = "aborted"
               /\ mem' = mem
               /\ lists' = lists
               /\ os' = os
      ]_vars

\* C14 witness: after pushes that filled the last block, the push on the
\* list of START_SIZE * (2^BLOCK_COUNT - 1) elements has aborted.
BlockCeilingFatalWitness ==
    /\ pc = "aborted"
    /\ ret.op = "push" /\ ret.panic
    /\ ret.idx = TotalCapacity
    /\ lists["a"].len = TotalCapacity
    /\ nextId >= 4
    /\ get(lists["a"], mem, TotalCapacity - 1).res = Some(nextId - 2)

\* ------------------------------------------------------------------ C17

\* No two calls of munmap released the same region.
ReleasedOnce ==
    \A i, j \in 1..Len(os.released) : os.released[i] = os.released[j] => i = j

\* C17: as long as the list exists, after pushes and clears, every block its
\* arena has mapped is mapped and nothing was released; once the list is
\* destroyed, at the end of to_vec too, every block its arena had mapped was
\* released exactly once and none is mapped.
DisposalOnce ==
    /\ "a" \in live =>
          /\ os.released = << >>
          /\ os.mapped = ArenaMappings(lists["a"].allocator)
          /\ os.mapped # {}
    /\ "a" \notin live =>
          /\ ret.op \in {"drop", "to_vec"}
          /\ os.mapped = {}
          /\ ReleasedOnce
          /\ { os.released[i] : i \in 1..Len(os.released) }
                 = ArenaMappings(lists["a"].allocator)

\* C17 witness: a list that was cleared and whose arena had mapped two
\* blocks was dropped, and the two blocks were released.
DisposalOnceWitness ==
    /\ "a" \notin live
    /\ ret.op = "drop"
    /\ nclears["a"] >= 1
    /\ Len(os.released) = 2
    /\ os.mapped = {}

\* ------------------------------------------------------------------ C18

\* C18: an operation reads or copies only slots that were written before,
\* and no element is dropped or moved out more than once.
SlotDiscipline ==
    /\ [][ \A a \in ret'.reads : a \in DOMAIN mem ]_vars
    /\ [](\A id \in DOMAIN fate : fate[id].drops + fate[id].moves <= 1)

\* ------------------------------------------------------------------ C19

\* The slot at addr holds an element: it was written with one and neither
\* dropped nor moved out since.
Initialized(addr) ==
    /\ addr \in DOMAIN mem
    /\ mem[addr].st = "init"
    /\ mem[addr].val # Undef

\* C19: in every list, len is at most the capacity of the allocated blocks,
\* every index below len lies in an allocated block and its slot holds an
\* element, and no slot at or after len holds one.
SlotState ==
    \A l \in live :
        /\ lists[l].len <= capacity(lists[l])
        /\ \A idx \in 0..(lists[l].len - 1) :
              /\ lists[l].blocks[idx_to_block_idx(idx)[1]] # None
              /\ Initialized(SlotAddr(lists[l], idx))
        /\ \A idx \in lists[l].len..(capacity(lists[l]) - 1) :
              ~Initialized(SlotAddr(lists[l], idx))


\* ------------------------------------------------------------------ C21

\* C21: block 0, once mapped, has the recorded capacity MIN_SIZE, and the
\* recorded capacity of every mapped block i >= 1 is GROWTH times that of
\* block i - 1, the product computed in 64 bits without wrapping: it is
\* larger than the capacity before it, never smaller and never zero.
CapacityDoubling ==
    /\ ctx.blocks[0] # None => ctx.block_sizes[0] = U(MIN_SIZE)
    /\ \A i \in 1..(MAX_BLOCKS - 1) :
          ctx.blocks[i] # None =>
             /\ checked_mul(ctx.block_sizes[i - 1], GROWTH)
                   = Some(ctx.block_sizes[i])
             /\ lt(ctx.block_sizes[i - 1], ctx.block_sizes[i])

\* The arena has grown to block 50 of 2^62 bytes, and the request that
\* needed the block after it, of 2^63 bytes, ended the process.
CapacityDoublingWitness ==
    /\ ctx.cur_block = 50
    /\ ctx.blocks[50] # None
    /\ ctx.block_sizes[50] = Pow2(62)
    /\ pc = "aborted"


\* ------------------------------------------------------------------ C22

\* Address p lies in block i of arena c.
AddrInBlock(p, c, i) ==
    /\ c.blocks[i] # None
    /\ BlockBase(c, i) <= p
    /\ p < BlockBase(c, i) + c.block_sizes[i]

\* The unused tail of block i of arena c, as the requests so far left it.
UnusedTail(c, i) ==
    LET used == { allocs[k].ptr + allocs[k].size - BlockBase(c, i) :
                    k \in { j \in 1..Len(allocs) : allocs[j].block = i } }
    IN  c.block_sizes[i] - (IF used = {} THEN 0
                            ELSE CHOOSE u \in used : \A v \in used : v <= u)

\* C22: dealloc leaves the arena (active block, cursor, capacity, block
\* table) and the mappings as they were; no step lowers the active block
\* index; and the address a request returns lies in no block before the
\* active one, whatever the request's size.
NeverFreesNeverReuses ==
    [][ /\ freed' # freed => ctx' = ctx /\ os' = os
        /\ ctx'.cur_block >= ctx.cur_block
        /\ Granted =>
              \A i \in 0..(ctx'.cur_block - 1) :
                 ~AddrInBlock(LastAlloc'.ptr, ctx', i) ]_vars

\* Block 0 was left with an unused tail of 1096 bytes, its first
\* allocation was released, and then a request of 24 bytes, which would
\* fit in that tail, was served by block 1.
NeverFreesNeverReusesWitness ==
    /\ Len(allocs) = 3
    /\ allocs[1].block = 0
    /\ allocs[2].block = 1
    /\ allocs[3].block = 1
    /\ allocs[3].size = 24
    /\ UnusedTail(ctx, 0) >= pad_to_align(allocs[3].size, allocs[3].align)
    /\ \E f \in freed : f.alloc = 1 /\ f.after = 2


\* ------------------------------------------------------------------ C23

\* The blocks of arena c that are mapped, as the block table has them.
TableMappings(c) ==
    { << BlockBase(c, i), c.block_sizes[i] >> :
        i \in { j \in 0..(MAX_BLOCKS - 1) : c.blocks[j] # None } }

\* C23: before the first request the arena has no mapped block; from the
\* first request on, the mapped blocks are exactly those of the indices
\* 0..cur_block, the tracked capacity is the recorded capacity of block
\* cur_block, the cursor is between 0 and that capacity, and every
\* allocation lies inside the block that served it.
ArenaWellFormed ==
    /\ (Len(allocs) = 0 /\ pc = "running") =>
          /\ \A i \in 0..(MAX_BLOCKS - 1) : ctx.blocks[i] = None
          /\ os.mapped = {}
    /\ Len(allocs) > 0 =>
          /\ \A i \in 0..(MAX_BLOCKS - 1) :
                ctx.blocks[i] # None <=> i <= ctx.cur_block
          /\ os.mapped = TableMappings(ctx)
          /\ Cardinality(os.mapped) = ctx.cur_block + 1
          /\ ctx.size = ctx.block_sizes[ctx.cur_block]
          /\ 0 <= ctx.pos
          /\ ctx.pos <= ctx.size
          /\ \A k \in 1..Len(allocs) : InBlock(allocs[k], ctx, allocs[k].block)

\* Three requests have made the arena grow twice, and the cursor stands
\* inside the third block.
ArenaWellFormedWitness ==
    /\ Len(allocs) = 3
    /\ ctx.cur_block = 2
    /\ ctx.size = MIN_SIZE * GROWTH * GROWTH
    /\ 0 < ctx.pos
    /\ ctx.pos < ctx.size


\* ------------------------------------------------------------------ C24

\* The byte ranges of the allocations a and b have a byte in common.
OverlapU64(a, b) ==
    /\ lt(a.ptr, wrapping_add(b.ptr, b.size))
    /\ lt(b.ptr, wrapping_add(a.ptr, a.size))

\* No call of alloc has started while another thread was inside request.
StrictlySequential == \A t \in Threads : ~threads[t].raced

\* The block table, the mappings and the cursor agree, between calls.
BookkeepingConsistent ==
    (\A t \in Threads : threads[t].pc = "idle") /\ Len(allocs) > 0 =>
        /\ \A i \in 0..(MAX_BLOCKS - 1) :
              ctx.blocks[i] # None <=> i <= ctx.cur_block
        /\ Cardinality(os.mapped) = ctx.cur_block + 1
        /\ ctx.size = ctx.block_sizes[ctx.cur_block]
        /\ le(ctx.pos, ctx.size)

\* C24: nothing in request orders the statements of two calling threads;
\* what the arena guarantees, allocations that do not overlap and
\* consistent bookkeeping, holds as long as the calls were strictly
\* sequential.
SequentialOnlyGuarantee ==
    StrictlySequential =>
        /\ \A i, j \in 1..Len(allocs) : i < j => ~OverlapU64(allocs[i], allocs[j])
        /\ BookkeepingConsistent

\* The calls of the two threads have interleaved, and the allocations they
\* returned overlap.
SequentialOnlyGuaranteeWitness ==
    /\ ~StrictlySequential
    /\ \E i, j \in 1..Len(allocs) :
          /\ allocs[i].thread # allocs[j].thread
          /\ OverlapU64(allocs[i], allocs[j])


\* ------------------------------------------------------------------ C25

\* Thread 1 is inside request.
InRequest == pc = "running" /\ threads[1].pc # "idle"

\* The call of thread 1 has returned an address, or the process aborted.
RequestOver == pc = "aborted" \/ threads[1].pc = "idle"

\* C25: a call of request takes at most MAX_BLOCKS growth steps, and it
\* ends: it returns an address or aborts the process.
RequestTerminates ==
    /\ [](threads[1].grown <= MAX_BLOCKS)
    /\ InRequest ~> RequestOver

\* A request of isize::MAX - 7 bytes, which no block the arena can map
\* holds, has aborted after 50 growth steps.
RequestTerminatesWitness ==
    /\ pc = "aborted"
    /\ threads[1].layout.size = << LIMB - 8, LIMB - 1, LIMB - 1, (LIMB \div 2) - 1 >>
    /\ threads[1].grown = 50
    /\ ctx.cur_block = 50


\* ------------------------------------------------------------------ C26

\* The slots of the logical indices below capacity() of a list share no
\* byte with each other, and each lies inside one block that the list's
\* arena has mapped; the blocks of the list are as many byte ranges as
\* there are blocks, and no two of them share a byte.
SlotsApart(list) ==
    LET slots == 0..(capacity(list) - 1)
        addrs == { SlotAddr(list, i) : i \in slots }
        arena == { q \in ArenaRanges(list) : << q[1], q[2] - q[1] >> \in os.mapped }
        blocks == { i \in 0..(BLOCK_COUNT - 1) : list.blocks[i] # None }
    IN  /\ Cardinality(addrs) = capacity(list)
        /\ \A x, y \in addrs : x = y \/ ~Overlaps(x, y)
        /\ \A x \in addrs :
              \E q \in arena : q[1] <= x /\ x + size_of_T <= q[2]
        /\ Cardinality(BlockRanges(list)) = Cardinality(blocks)
        /\ \A r, p \in BlockRanges(list) : r = p \/ r[2] <= p[1] \/ p[2] <= r[1]

\* C26: in every state reached by new, push, clear and clone, the element
\* storage of every list that exists is free of aliasing, and the slots of
\* a list and of its clone share no byte either.
NoSlotAliasing ==
    /\ \A l \in live : SlotsApart(lists[l])
    /\ \A l \in live, k \in live :
          l # k =>
             \A r \in BlockRanges(lists[l]), p \in BlockRanges(lists[k]) :
                r[2] <= p[1] \/ p[2] <= r[1]

\* Lists of 256-byte elements, whose second block made the arena grow: the
\* source and its clone have two blocks each, and the source was cleared
\* and pushed to again.
NoSlotAliasingWitness ==
    /\ elem.size = 256
    /\ live = {"a", "b"}
    /\ lists["a"].blocks[1] # None
    /\ lists["b"].blocks[1] # None
    /\ lists["b"].allocator.cur_block = 1
    /\ nclears["a"] = 1
    /\ lists["a"].len = 1


\* ------------------------------------------------------------------ C27

\* C27: when a list that was pushed to and cleared has been destroyed
\* (dropped, not consumed by to_vec), every element that was ever pushed
\* has been dropped exactly once.
DroppedExactlyOnce ==
    ("a" \notin live /\ ret.op = "drop") =>
        \A id \in DOMAIN fate : fate[id].drops = 1

====
